---- MODULE Spec2Model ----
(***************************************************************************)
(* A model of utils/data.py of WiSAR: the sample loader                    *)
(* MultiViewTemporalSample, its integrate / draw_labels / show_photo_grid  *)
(* methods and the ImageDataset container.                                 *)
(*                                                                         *)
(* Arrays are modelled by their shape (the real numbers, 1024 included)    *)
(* and by their values at the probe pixels (row, col) with row and col in  *)
(* 0..NProbe-1, the top-left corner every modelled image contains.  All    *)
(* array operations of the code except the warp are pointwise, and the     *)
(* homographies of the modelled files are translations by whole, non-      *)
(* negative pixel counts, which move probe pixels onto probe pixels or in  *)
(* from outside the source (OpenCV's constant border, 0).                  *)
(*                                                                         *)
(* Spec covers construction and the container protocol over directory      *)
(* listings of every kind; SpecMethods adds the methods of the samples,    *)
(* over listings of one or two complete sample directories.                *)
(***************************************************************************)
EXTENDS Integers, Sequences, FiniteSets, TLC

\* ---------------------------------------------------------------- bounds
NProbe == 2          \* probe pixels are (0..NProbe-1) x (0..NProbe-1)
MaxEntries == 2      \* entries of a <data_path>/<mode> directory

\* ------------------------------------------------------ program constants
photo_order == <<"B05", "B04", "B03", "B02", "B01",
                 "G01", "G02", "G03", "G04", "G05">>
NumTimesteps == 7
CanvasSize == 1024
Divisor == 10
Uint8 == 256
CenterTimestep == 3
CenterPerspective == 4
Thickness == 5
Blue == 255

Timesteps == 0 .. (NumTimesteps - 1)
Positions == 1 .. Len(photo_order)     \* position p of the code is index p+1
Probes == (0 .. (NProbe - 1)) \X (0 .. (NProbe - 1))
NoneVal == [isNone |-> TRUE]        \* Python's None
MaskRef == [ref |-> "mask"]          \* a reference to the shared mask array
Black == <<0, 0, 0>>

\* ------------------------------------------------------- str and os.path
Digits == <<"0", "1", "2", "3", "4", "5", "6", "7", "8", "9">>
str(n) == Digits[n + 1]
join(a, b) == a \o "/" \o b

\* name = str(timestep) + "-" + perspective
Name(timestep, perspective) == str(timestep) \o "-" \o perspective

\* ------------------------------------------------------------ file system
\* A sample directory is described by the style of its files, the shape of
\* its images, the files it lacks and the keys its homographies.json lacks.
AllKeys == {Name(t, photo_order[i]) : t \in Timesteps, i \in Positions}
KeyIndex == [k \in AllKeys |->
               CHOOSE ti \in Timesteps \X Positions :
                   Name(ti[1], photo_order[ti[2]]) = k]

Translation(tx, ty) == <<<<1, 0, tx>>, <<0, 1, ty>>, <<0, 0, 1>>>>
Identity == Translation(0, 0)

\* The content of "<key>.png": every file of style "distinct" has its own
\* colour; "gap" is "distinct" with one black pixel in every G03 image;
\* "white" is saturated.
PngPixel(style, t, i, q) ==
    CASE style = "white" -> <<255, 255, 255>>
      [] style = "gap" /\ photo_order[i] = "G03" /\ q = <<0, 1>> -> Black
      [] OTHER -> <<10 * t + i, 100 + i, 7>>

PngContent(dir, key) ==
    LET ti == KeyIndex[key]
    IN  [shape |-> <<dir.shape[1], dir.shape[2], 3>>,
         px |-> [q \in Probes |-> PngPixel(dir.style, ti[1], ti[2], q)]]

\* The content of homographies.json: a translation of its own per key in
\* style "distinct", the identity elsewhere.
HomographyDict(dir) ==
    [k \in AllKeys \ dir.nokeys |->
        IF dir.style = "distinct"
        THEN Translation(KeyIndex[k][1], KeyIndex[k][2] - 1)
        ELSE Identity]

LabelsJson(dir) == <<<<0, 0, 8, 8>>>>

Big == <<CanvasSize, CanvasSize>>
Dir(style, shape, nofiles, nokeys) ==
    [style |-> style, shape |-> shape, nofiles |-> nofiles, nokeys |-> nokeys]
GoodDirs ==
    {Dir(s, Big, {}, {}) : s \in {"distinct", "gap", "white"}}
    \cup {Dir("white", sh, {}, {}) : sh \in {<<4, 4>>, <<4, 6>>}}

\* Directories that lack one file, or one key of homographies.json.
DamagedDirs ==
    {Dir("distinct", Big, {f}, {}) :
         f \in {"homographies.json", "labels.json"}
               \cup {k \o ".png" : k \in AllKeys}}
    \cup {Dir("gap", Big, {}, {k}) : k \in AllKeys}

\* An entry of the directory listing: a sample directory or a plain file.
DirEntry(d) == [isdir |-> TRUE, dir |-> d]
FileEntry == [isdir |-> FALSE, dir |-> NoneVal]
EntryName(k) == "s" \o str(k)

\* The listings the model starts from: one directory of any kind, or up to
\* MaxEntries entries out of a good directory, a directory without
\* labels.json (good for every mode but validation), a directory whose
\* homographies.json lacks a key and a plain file.
FewEntries ==
    {DirEntry(Dir("distinct", Big, {}, {})),
     DirEntry(Dir("gap", Big, {"labels.json"}, {})),
     DirEntry(Dir("white", Big, {}, {Name(3, "B01")})),
     FileEntry}
Listings ==
    {<<DirEntry(d)>> : d \in GoodDirs \cup DamagedDirs}
    \cup UNION {[1 .. n -> FewEntries] : n \in 0 .. MaxEntries}

\* The listings the methods of the samples are run on: one good directory,
\* or two.
MethodListings ==
    {<<DirEntry(d)>> : d \in GoodDirs}
    \cup {<<DirEntry(Dir("gap", Big, {}, {})), DirEntry(Dir("white", Big, {}, {}))>>}

\* <root>/mask.png, a greyscale image, different under each root.
Roots == {"data", "other"}
MaskRoots == Roots \cup {"small", "strip"}
MaskPng(shape, zero) ==
    [shape |-> shape, px |-> [q \in Probes |-> IF q = zero THEN 0 ELSE 255]]
MaskFile(path) ==
    CASE path = "data/mask.png" -> MaskPng(Big, <<1, 1>>)
      [] path = "other/mask.png" -> MaskPng(Big, <<0, 0>>)
      [] path = "small/mask.png" -> MaskPng(<<4, 4>>, <<1, 1>>)
      [] path = "strip/mask.png" -> MaskPng(<<4, 6>>, <<1, 1>>)

VARIABLES listing, pc, call, exc, self_path, samples, maskObj, io, ret

vars == <<listing, pc, call, exc, self_path, samples, maskObj, io, ret>>

\* ------------------------------------------------ MultiViewTemporalSample
\* The 70 keys in the order of the two nested loops.
KeyOrder ==
    [n \in 1 .. (NumTimesteps * Len(photo_order)) |->
        Name((n - 1) \div Len(photo_order),
             photo_order[((n - 1) % Len(photo_order)) + 1])]

\* photo[mask] = 0
ApplyMask(photo, mask) ==
    [photo EXCEPT !.px = [q \in Probes |->
                            IF mask.px[q] THEN Black ELSE photo.px[q]]]

\* One pass of the inner loop body: the exception it raises, or "none".
\* Whether the array np.asarray makes of a PIL image can be written to
\* depends on the installed Pillow and numpy: `writable`.
StepExc(dir, mask, key, writable) ==
    IF (key \o ".png") \in dir.nofiles THEN "FileNotFoundError"
    ELSE IF key \in dir.nokeys THEN "KeyError"
    ELSE IF mask = NoneVal THEN "none"
    ELSE IF ~writable THEN "ValueError"
    ELSE IF mask.shape # dir.shape THEN "IndexError"
    ELSE "none"

\* The order of perspectives the loader iterates in.
LoadOrderSorted ==
    <<"B01", "B02", "B03", "B04", "B05", "G01", "G02", "G03", "G04", "G05">>
LoadOrder == photo_order

\* if mode == "validation"
WantsLabelsUnlessTrain(mode) == mode # "train"
WantsLabels(mode) == mode = "validation"

\* MultiViewTemporalSample.__init__: the exception raised ("none" if it
\* returns), the object built and the files it tried to open, in order.
LoadSample(sample_path, dir, mode, mask, writable) ==
    LET homfile == "homographies.json"
        nohom == homfile \in dir.nofiles
        bad == {n \in DOMAIN KeyOrder : StepExc(dir, mask, KeyOrder[n], writable) # "none"}
        stop == IF bad = {} THEN 0
                ELSE CHOOSE n \in bad : \A m \in bad : n <= m
        last == IF nohom THEN 0
                ELSE IF stop = 0 THEN Len(KeyOrder) ELSE stop
        wantlabels == WantsLabels(mode)
        nolabels == "labels.json" \in dir.nofiles
        labelsread == ~nohom /\ stop = 0 /\ wantlabels
        homography_dict == HomographyDict(dir)
        name(t, i) == Name(t, LoadOrder[i])
        photo(t, i) ==
            IF mask = NoneVal THEN PngContent(dir, name(t, i))
            ELSE ApplyMask(PngContent(dir, name(t, i)), mask)
        attrs == [photos |-> [t \in Timesteps |->
                                [i \in Positions |-> photo(t, i)]],
                  homographies |-> [t \in Timesteps |->
                                [i \in Positions |-> homography_dict[name(t, i)]]],
                  mask |-> IF mask = NoneVal THEN NoneVal ELSE MaskRef]
        e == IF nohom THEN "FileNotFoundError"
             ELSE IF stop # 0 THEN StepExc(dir, mask, KeyOrder[stop], writable)
             ELSE IF wantlabels /\ nolabels THEN "FileNotFoundError"
             ELSE "none"
    IN  [exc |-> e,
         obj |-> IF e # "none" THEN NoneVal
                 ELSE IF wantlabels
                      THEN [photos |-> attrs.photos,
                            homographies |-> attrs.homographies,
                            mask |-> attrs.mask,
                            labels |-> LabelsJson(dir)]
                      ELSE attrs,
         opens |-> <<join(sample_path, homfile)>>
                   \o [n \in 1 .. last |->
                         join(sample_path, KeyOrder[n] \o ".png")]
                   \o (IF labelsread THEN <<join(sample_path, "labels.json")>>
                       ELSE <<>>)]

\* ------------------------------------------------------------ ImageDataset
ModeInputs == {"train", "test", "validation", "Validation", "bogus"}

\* str.lower on the modes the model passes
lower(s) == IF s = "Validation" THEN "validation" ELSE s

RecognizedModes == {"train", "test", "validation"}

\* np.asarray(Image.open(...), dtype=bool)
AsBool(png) == [shape |-> png.shape, px |-> [q \in Probes |-> png.px[q] # 0]]

\* ~array
Invert(a) == [a EXCEPT !.px = [q \in Probes |-> ~a.px[q]]]

\* os.path.join("data", "mask.png")
MaskPath(data_path) == join("data", "mask.png")

Open(path) == [op |-> "open", path |-> path]
ListDir(path) == [op |-> "listdir", path |-> path]
Opens(paths) == [n \in DOMAIN paths |-> Open(paths[n])]

\* the entries of the listing the comprehension keeps
KeptUnlessGap(entry) == entry.isdir /\ entry.dir.style # "gap"
Kept(entry) == entry.isdir

\* assert mode in ["train", "test", "validation"]
ModeCheckedNever(mode) == TRUE
ModeChecked(mode) == mode \in RecognizedModes

\* The list comprehension: the entries of the listing from the k-th on are
\* loaded in order until one load raises.  The loads made, as a sequence.
RECURSIVE LoadAll(_, _, _, _, _)
RECURSIVE LoadAllSkipping(_, _, _, _, _)
LoadAllSkipping(k, path, mode, mask, writable) ==
    IF k > Len(listing) THEN <<>>
    ELSE IF ~Kept(listing[k]) THEN LoadAllSkipping(k + 1, path, mode, mask, writable)
    ELSE LET load == LoadSample(join(path, EntryName(k)), listing[k].dir,
                                mode, mask, writable)
         IN  IF load.exc # "none"
             THEN LoadAllSkipping(k + 1, path, mode, mask, writable)
             ELSE <<load>> \o LoadAllSkipping(k + 1, path, mode, mask, writable)
LoadAll(k, path, mode, mask, writable) ==
    IF k > Len(listing) THEN <<>>
    ELSE IF ~Kept(listing[k]) THEN LoadAll(k + 1, path, mode, mask, writable)
    ELSE LET load == LoadSample(join(path, EntryName(k)), listing[k].dir,
                                mode, mask, writable)
         IN  IF load.exc # "none" THEN <<load>>
             ELSE <<load>> \o LoadAll(k + 1, path, mode, mask, writable)

RECURSIVE AllOpens(_)
AllOpens(loads) ==
    IF loads = <<>> THEN <<>>
    ELSE Opens(Head(loads).opens) \o AllOpens(Tail(loads))

\* ImageDataset.__init__(data_path, mode, apply_mask)
ImageDataset(data_path, mode0, apply_mask, writable) ==
    /\ pc = "start"
    /\ call' = [fn |-> "ImageDataset", data_path |-> data_path,
                mode |-> mode0, apply_mask |-> apply_mask]
    /\ ret' = NoneVal
    /\ UNCHANGED listing
    /\ LET mode == lower(mode0)
       IN  IF ~ModeChecked(mode)
           THEN /\ pc' = "failed"
                /\ exc' = "AssertionError"
                /\ UNCHANGED <<self_path, samples, maskObj, io>>
           ELSE LET path == join(data_path, mode)
                    maskpath == MaskPath(data_path)
                    mask == IF apply_mask
                            THEN Invert(AsBool(MaskFile(maskpath)))
                            ELSE NoneVal
                    loads == LoadAll(1, path, mode, mask, writable)
                    failed == loads # <<>> /\ loads[Len(loads)].exc # "none"
                    objs == [n \in 1 .. Len(loads) |-> loads[n].obj]
                IN  /\ io' = (IF apply_mask THEN <<Open(maskpath)>> ELSE <<>>)
                             \o <<ListDir(path)>> \o AllOpens(loads)
                    /\ IF ~failed
                       THEN /\ pc' = "dataset"
                            /\ exc' = "none"
                            /\ self_path' = path
                            /\ samples' = objs
                            /\ maskObj' = mask
                       ELSE /\ pc' = "failed"
                            /\ exc' = loads[Len(loads)].exc
                            /\ UNCHANGED <<self_path, samples, maskObj>>

\* MultiViewTemporalSample(sample_path, mode, mask) called directly on the
\* first entry of data/validation, with the default mask (None) or with a
\* mask array made of the mask file under mask_arg.root.
LoaderMasks == {NoneVal} \cup {[root |-> r] : r \in MaskRoots}
MultiViewTemporalSample(mode, mask_arg, writable) ==
    /\ pc = "start"
    /\ 1 \in DOMAIN listing
    /\ listing[1].isdir
    /\ LET k == 1
           sample_path == join(join("data", "validation"), EntryName(k))
           mask == IF mask_arg = NoneVal THEN NoneVal
                   ELSE Invert(AsBool(MaskFile(join(mask_arg.root, "mask.png"))))
           load == LoadSample(sample_path, listing[k].dir, mode, mask, writable)
           e == load.exc
       IN  /\ call' = [fn |-> "MultiViewTemporalSample",
                       sample_path |-> sample_path,
                       mode |-> mode, mask |-> mask]
           /\ io' = Opens(load.opens)
           /\ exc' = e
           /\ IF e = "none"
              THEN /\ pc' = "sample"
                   /\ samples' = <<load.obj>>
                   /\ maskObj' = mask
              ELSE /\ pc' = "failed"
                   /\ UNCHANGED <<samples, maskObj>>
    /\ ret' = NoneVal
    /\ UNCHANGED <<listing, self_path>>

\* ------------------------------------------------------------- integrate
\* The shape NumPy broadcasts two shapes of one rank to, if there is one.
BroadcastDim(x, y) == IF x = y \/ y = 1 THEN x ELSE IF x = 1 THEN y ELSE 0
Broadcast(a, b) ==
    LET r == [k \in DOMAIN a |-> BroadcastDim(a[k], b[k])]
    IN  [ok |-> \A k \in DOMAIN a : r[k] # 0, shape |-> r]

\* cv2.warpPerspective(src, M, dsize) for a translation M; dsize is
\* (width, height), the result has dsize[2] rows and dsize[1] columns.
warpPerspective(src, M, dsize) ==
    LET tx == M[1][3]
        ty == M[2][3]
        inside(r, c) == r >= 0 /\ c >= 0 /\ r < src.shape[1] /\ c < src.shape[2]
    IN  [shape |-> <<dsize[2], dsize[1], src.shape[3]>>,
         px |-> [q \in Probes |->
                   IF inside(q[1] - ty, q[2] - tx)
                   THEN src.px[<<q[1] - ty, q[2] - tx>>]
                   ELSE Black]]

ChannelSum(v) == v[1] + v[2] + v[3]

\* np.where(np.sum(warped_image, axis=-1) > 0, ov_mask, False), at a pixel
NarrowUnion(ov, warped) == ov \/ ChannelSum(warped) > 0
Narrow(ov, warped) == IF ChannelSum(warped) > 0 THEN ov ELSE FALSE

\* cv2.warpPerspective of the i-th photo of a timestep
Warped(photos, homographies, i) ==
    warpPerspective(photos[i], homographies[i],
                    <<photos[i].shape[1], photos[i].shape[2]>>)

\* The shapes of the loop of integrate from the i-th perspective on: the
\* exception NumPy raises ("none") and the shape of ov_mask at the end.
RECURSIVE LoopShapes(_, _, _, _, _)
LoopShapes(i, photos, homographies, ov_shape, canvas) ==
    IF i > Len(photo_order) THEN [exc |-> "none", ov_shape |-> ov_shape]
    ELSE LET w == Warped(photos, homographies, i).shape
             where == Broadcast(<<w[1], w[2]>>, ov_shape)
             added == Broadcast(canvas, w)
         IN  IF ~where.ok \/ ~added.ok \/ added.shape # canvas
             THEN [exc |-> "ValueError", ov_shape |-> ov_shape]
             ELSE LoopShapes(i + 1, photos, homographies, where.shape, canvas)

\* The values of the loop of integrate at pixel q from the i-th perspective
\* on: ov_mask[q] and integrated_image[q] at the end.
RECURSIVE LoopPixel(_, _, _, _, _, _)
LoopPixel(i, q, photos, homographies, ov, acc) ==
    IF i > Len(photo_order) THEN [ov_mask |-> ov, integrated_image |-> acc]
    ELSE LET warped == Warped(photos, homographies, i).px[q]
         IN  LoopPixel(i + 1, q, photos, homographies, Narrow(ov, warped),
                       <<acc[1] + warped[1], acc[2] + warped[2],
                         acc[3] + warped[3]>>)

\* integrated_image[~ov_mask] = 0; integrated_image /= 10; np.uint8(...)
Finish(ov, v) == IF ~ov THEN 0 ELSE (v \div Divisor) % Uint8

\* integrate(self, timestep): [exc, image]
integrate(self, timestep) ==
    IF self.mask = NoneVal THEN [exc |-> "AttributeError", image |-> NoneVal]
    ELSE LET canvas == <<CanvasSize, CanvasSize, 3>>
             photos == self.photos[timestep]
             homographies == self.homographies[timestep]
             ov_mask == Invert(maskObj)
             shapes == LoopShapes(1, photos, homographies, ov_mask.shape, canvas)
             pixel(q) ==
                 LET end == LoopPixel(1, q, photos, homographies,
                                      ov_mask.px[q], Black)
                 IN  <<Finish(end.ov_mask, end.integrated_image[1]),
                       Finish(end.ov_mask, end.integrated_image[2]),
                       Finish(end.ov_mask, end.integrated_image[3])>>
         IN  IF shapes.exc # "none" THEN [exc |-> shapes.exc, image |-> NoneVal]
             ELSE IF shapes.ov_shape # <<canvas[1], canvas[2]>>
             THEN [exc |-> "IndexError", image |-> NoneVal]
             ELSE [exc |-> "none",
                   image |-> [shape |-> canvas,
                              px |-> [q \in Probes |-> pixel(q)]]]

\* ------------------------------------------------------------ draw_labels
\* cv2.rectangle(image, (x, y), (x + w, y + h), (0, 0, 255), 5) draws in
\* place: the pixels within Thickness \div 2 of the rectangle's outline.
OnOutline(q, label) ==
    LET half == Thickness \div 2
        x1 == label[1]
        y1 == label[2]
        x2 == label[1] + label[3]
        y2 == label[2] + label[4]
        r == q[1]
        c == q[2]
    IN  /\ x1 - half <= c /\ c <= x2 + half
        /\ y1 - half <= r /\ r <= y2 + half
        /\ ~(x1 + half < c /\ c < x2 - half /\ y1 + half < r /\ r < y2 - half)

rectangle(image, label) ==
    [image EXCEPT !.px = [q \in Probes |->
                            IF OnOutline(q, label) /\ q[1] < image.shape[1]
                               /\ q[2] < image.shape[2]
                            THEN <<0, 0, Blue>> ELSE image.px[q]]]

RECURSIVE DrawAll(_, _)
DrawAll(image, labels) ==
    IF labels = <<>> THEN image
    ELSE DrawAll(rectangle(image, Head(labels)), Tail(labels))

\* What `image = self.photos[3,4]` aliases: a view of the sample's array.
CenterView(drawn, photo) == drawn

LabelInputs == {<<>>, <<<<0, 0, 8, 8>>>>}

Live == pc \in {"dataset", "sample"}

\* sample.integrate(timestep) on the n-th live sample
Integrate(n, timestep) ==
    /\ Live
    /\ n \in DOMAIN samples
    /\ LET r == integrate(samples[n], timestep)
       IN  ret' = [op |-> "integrate", n |-> n, timestep |-> timestep,
                   exc |-> r.exc, image |-> r.image]
    /\ UNCHANGED <<listing, pc, call, exc, self_path, samples, maskObj, io>>

\* sample.draw_labels(labels, on_integrated) on the n-th live sample
DrawLabels(n, labels, on_integrated) ==
    /\ Live
    /\ n \in DOMAIN samples
    /\ LET r == integrate(samples[n], CenterTimestep)
           center == samples[n].photos[CenterTimestep][CenterPerspective + 1]
       IN  IF on_integrated
           THEN /\ ret' = [op |-> "draw_labels", n |-> n,
                           on_integrated |-> TRUE, exc |-> r.exc,
                           image |-> IF r.exc = "none"
                                     THEN DrawAll(r.image, labels)
                                     ELSE NoneVal]
                /\ UNCHANGED samples
           ELSE /\ ret' = [op |-> "draw_labels", n |-> n,
                           on_integrated |-> FALSE, exc |-> "none",
                           image |-> DrawAll(center, labels)]
                /\ samples' =
                     [samples EXCEPT
                        ![n].photos[CenterTimestep][CenterPerspective + 1] =
                            CenterView(DrawAll(center, labels), center)]
    /\ UNCHANGED <<listing, pc, call, exc, self_path, maskObj, io>>

\* sample.show_photo_grid() on the n-th live sample
ShowPhotoGrid(n) ==
    /\ Live
    /\ n \in DOMAIN samples
    /\ ret' = [op |-> "show_photo_grid", n |-> n, exc |-> "none",
               image |-> NoneVal]
    /\ UNCHANGED <<listing, pc, call, exc, self_path, samples, maskObj, io>>

\* len(dataset)
DatasetLen ==
    /\ pc = "dataset"
    /\ ret' = [op |-> "len", exc |-> "none", value |-> Len(samples)]
    /\ UNCHANGED <<listing, pc, call, exc, self_path, samples, maskObj, io>>

\* dataset[index]: a reference to (the index of) the sample returned
GetItem(index) ==
    /\ pc = "dataset"
    /\ ret' = IF index < Len(samples)
              THEN [op |-> "getitem", index |-> index, exc |-> "none",
                    item |-> index + 1]
              ELSE [op |-> "getitem", index |-> index, exc |-> "IndexError",
                    item |-> 0]
    /\ UNCHANGED <<listing, pc, call, exc, self_path, samples, maskObj, io>>

Start ==
    /\ pc = "start"
    /\ call = NoneVal
    /\ exc = "none"
    /\ self_path = NoneVal
    /\ samples = <<>>
    /\ maskObj = NoneVal
    /\ io = <<>>
    /\ ret = NoneVal

Init == listing \in Listings /\ Start

InitMethods == listing \in MethodListings /\ Start

\* Construction and the container protocol.
Next ==
    \/ \E data_path \in Roots, mode \in ModeInputs, apply_mask \in BOOLEAN,
          writable \in BOOLEAN :
          ImageDataset(data_path, mode, apply_mask, writable)
    \/ \E mode \in ModeInputs, mask_arg \in LoaderMasks, writable \in BOOLEAN :
          MultiViewTemporalSample(mode, mask_arg, writable)
    \/ DatasetLen
    \/ \E index \in 0 .. MaxEntries : GetItem(index)

\* The methods of the samples as well.
NextMethods ==
    \/ Next
    \/ \E n \in DOMAIN samples, timestep \in Timesteps : Integrate(n, timestep)
    \/ \E n \in DOMAIN samples, labels \in LabelInputs, on_integrated \in BOOLEAN :
          DrawLabels(n, labels, on_integrated)
    \/ \E n \in DOMAIN samples : ShowPhotoGrid(n)

Spec == Init /\ [][Next]_vars

SpecMethods == InitMethods /\ [][NextMethods]_vars

\* ------------------------------------------------------------------ claims
\* The directories of the listing, in the order of enumeration.
Subdirs == SelectSeq([k \in 1 .. Len(listing) |-> k], LAMBDA k : listing[k].isdir)
SourceDir(n) == listing[Subdirs[n]].dir
Called(fn) == pc # "start" /\ call.fn = fn
\* The mode the loader is given.
LoaderMode == IF call.fn = "ImageDataset" THEN lower(call.mode) ELSE call.mode
\* A decoded image as the loader stores it: blanked where the mask is set.
AsLoaded(photo) == IF maskObj = NoneVal THEN photo ELSE ApplyMask(photo, maskObj)

\* C1: after construction, photos[t][p] of every sample is the image of the
\* file "<t>-<P>.png" and homographies[t][p] the entry "<t>-<P>" of
\* homographies.json, P the p-th of B05 B04 B03 B02 B01 G01 G02 G03 G04 G05;
\* both hold exactly 7 x 10 entries.
C1_PhotoOrder ==
    Live =>
      \A n \in DOMAIN samples :
        LET order == <<"B05", "B04", "B03", "B02", "B01",
                       "G01", "G02", "G03", "G04", "G05">>
            self == samples[n]
        IN  /\ DOMAIN self.photos = 0 .. 6
            /\ DOMAIN self.homographies = 0 .. 6
            /\ \A t \in 0 .. 6 :
                 /\ DOMAIN self.photos[t] = 1 .. 10
                 /\ DOMAIN self.homographies[t] = 1 .. 10
                 /\ \A i \in 1 .. 10 :
                      LET key == str(t) \o "-" \o order[i]
                      IN  /\ self.photos[t][i]
                               = AsLoaded(PngContent(SourceDir(n), key))
                          /\ self.homographies[t][i]
                               = HomographyDict(SourceDir(n))[key]

\* A dataset of two samples with a mask, the first of files that all differ:
\* its last photo is the content of 6-G05.png, blanked at the masked pixel.
C1_Witness ==
    /\ pc = "dataset"
    /\ Len(samples) = 2
    /\ maskObj # NoneVal
    /\ SourceDir(1).style = "distinct"
    /\ samples[1].photos[6][10].px[<<0, 0>>] = <<70, 110, 7>>
    /\ samples[1].photos[6][10].px[<<1, 1>>] = Black
    /\ samples[1].homographies[6][10] = Translation(6, 9)

\* C2: a loaded sample has labels if and only if the mode given to the
\* loader is "validation", and then they are the content of labels.json.
C2_LabelsIffValidation ==
    Live =>
      \A n \in DOMAIN samples :
        /\ ("labels" \in DOMAIN samples[n]) <=> (LoaderMode = "validation")
        /\ "labels" \in DOMAIN samples[n]
             => samples[n].labels = LabelsJson(SourceDir(n))

\* A dataset built in validation mode, and its samples have labels.
C2_Witness ==
    /\ pc = "dataset"
    /\ call.mode = "Validation"
    /\ Len(samples) = 2
    /\ "labels" \in DOMAIN samples[2]

\* What a directory lacks of what the loader needs in a mode.
Lacks(dir, mode) ==
    \/ "homographies.json" \in dir.nofiles
    \/ \E t \in 0 .. 6, i \in 1 .. 10 :
          LET key == str(t) \o "-" \o photo_order[i]
          IN  (key \o ".png") \in dir.nofiles \/ key \in dir.nokeys
    \/ mode = "validation" /\ "labels.json" \in dir.nofiles
Failed == pc = "failed" /\ exc # "none" /\ samples = <<>>

\* C3: a sample directory that lacks homographies.json, one of the 70
\* images, one of the 70 keys or (validation) labels.json makes the loader
\* raise and leave no sample, and makes ImageDataset raise and leave no
\* dataset; no loaded sample comes from such a directory.
C3_AllOrNothing ==
    /\ Called("MultiViewTemporalSample") /\ Lacks(listing[1].dir, call.mode)
         => Failed
    /\ (/\ Called("ImageDataset")
        /\ lower(call.mode) \in RecognizedModes
        /\ \E k \in DOMAIN listing :
              listing[k].isdir /\ Lacks(listing[k].dir, lower(call.mode)))
         => Failed
    /\ Live => \A n \in DOMAIN samples : ~Lacks(SourceDir(n), LoaderMode)
    /\ pc = "failed" => samples = <<>>

\* ImageDataset in validation mode on a good directory followed by one
\* without labels.json: the first sample was read, and no dataset is left.
C3_Witness ==
    /\ Called("ImageDataset")
    /\ Len(listing) = 2
    /\ listing[1].isdir /\ ~Lacks(listing[1].dir, "validation")
    /\ listing[2].isdir /\ "labels.json" \in listing[2].dir.nofiles
    /\ Failed
    /\ exc = "FileNotFoundError"
    /\ Len(io) > 2 * 70

\* C4: len(dataset) is the number of subdirectories of <data_path>/<mode>,
\* the i-th sample is the one loaded from the i-th subdirectory, entries
\* that are no directories yield none, and dataset[i] returns the i-th.
C4_OnePerSubdir ==
    pc = "dataset" =>
      LET count == Cardinality({k \in DOMAIN listing : listing[k].isdir})
      IN  /\ Len(samples) = count
          /\ \A n \in DOMAIN samples :
               samples[n] = LoadSample(join(self_path, EntryName(Subdirs[n])),
                                       SourceDir(n), LoaderMode, maskObj, TRUE).obj
          /\ self_path = join(call.data_path, lower(call.mode))
          /\ ret # NoneVal /\ ret.op = "len" => ret.value = count
          /\ ret # NoneVal /\ ret.op = "getitem" /\ ret.index < count
               => ret.exc = "none" /\ ret.item = ret.index + 1

\* dataset[0] of a dataset whose directory holds a plain file, then a
\* sample directory.
C4_Witness ==
    /\ pc = "dataset"
    /\ Len(listing) = 2
    /\ ~listing[1].isdir
    /\ Len(samples) = 1
    /\ ret # NoneVal /\ ret.op = "getitem" /\ ret.exc = "none"
    /\ samples[ret.item] = LoadSample("other/test/s2", listing[2].dir, "test",
                                      maskObj, TRUE).obj

\* C5 as claimed: ImageDataset fails, with nothing read, whenever the mode is
\* not one of "train", "test", "validation".
C5_Claimed ==
    Called("ImageDataset") /\ call.mode \notin {"train", "test", "validation"}
      => pc = "failed" /\ io = <<>>

\* C5 as amended: ImageDataset fails, with nothing read, whenever the mode
\* in lower case is not one of "train", "test", "validation".
C5_ModeGuard ==
    Called("ImageDataset")
    /\ lower(call.mode) \notin {"train", "test", "validation"}
      => /\ pc = "failed"
         /\ exc = "AssertionError"
         /\ io = <<>>
         /\ samples = <<>>
         /\ maskObj = NoneVal

\* ImageDataset(mode="bogus", apply_mask=True) on a non-empty directory.
C5_Witness ==
    /\ Called("ImageDataset")
    /\ call.mode = "bogus"
    /\ call.apply_mask
    /\ Len(listing) > 0 /\ listing[1].isdir
    /\ pc = "failed"
    /\ io = <<>>

\* C6: with apply_mask the mask of the samples is the inverse of the image
\* <data_path>/mask.png, read exactly once, and shared by all samples;
\* without apply_mask no mask file is read and no sample has a mask.
C6_MaskUnderDataPath ==
    pc = "dataset" =>
      LET maskpath == join(call.data_path, "mask.png")
          reads == {k \in DOMAIN io : io[k] = Open(maskpath)}
          maskreads == {k \in DOMAIN io :
                          \E r \in MaskRoots : io[k] = Open(join(r, "mask.png"))}
      IN  IF call.apply_mask
          THEN /\ maskObj = Invert(AsBool(MaskFile(maskpath)))
               /\ Cardinality(reads) = 1
               /\ \A n \in DOMAIN samples : samples[n].mask = MaskRef
          ELSE /\ maskreads = {}
               /\ \A n \in DOMAIN samples : samples[n].mask = NoneVal

Returned(op) == ret # NoneVal /\ ret.op = op

\* C7: integrate returns a 1024 x 1024 x 3 image of values in 0..255 for
\* every timestep, whatever the height and width of the photos (stated for
\* the samples that have a mask).
C7_Claimed ==
    Returned("integrate") /\ samples[ret.n].mask # NoneVal
      => /\ ret.exc = "none"
         /\ ret.image.shape = <<1024, 1024, 3>>
         /\ \A q \in Probes, c \in 1 .. 3 : ret.image.px[q][c] \in 0 .. 255

\* The sum over the first i perspectives of channel c of the warped images
\* at pixel q.
RECURSIVE WarpedSum(_, _, _, _, _)
WarpedSum(photos, homographies, q, c, i) ==
    IF i = 0 THEN 0
    ELSE Warped(photos, homographies, i).px[q][c]
         + WarpedSum(photos, homographies, q, c, i - 1)

\* C8: on a sample without a mask whose homographies are all the identity,
\* integrate(timestep=0) returns, and where all 10 images have a value the
\* result is the sum of the 10 values divided by 10.
C8_Claimed ==
    (/\ Returned("integrate")
     /\ ret.timestep = 0
     /\ samples[ret.n].mask = NoneVal
     /\ \A i \in 1 .. 10 : samples[ret.n].homographies[0][i] = Identity)
      => /\ ret.exc = "none"
         /\ \A q \in Probes, c \in 1 .. 3 :
              (\A i \in 1 .. 10 : samples[ret.n].photos[0][i].px[q] # Black)
                => ret.image.px[q][c]
                     = WarpedSum(samples[ret.n].photos[0],
                                 samples[ret.n].homographies[0], q, c, 10) \div 10

\* C9: where integrate returns an image, a pixel is valid if the inverse of
\* the sample's mask is true there and every one of the 10 warped images
\* has a non-zero channel there; a valid pixel is the floor of the sum of
\* the 10 warped values over 10, any other pixel is 0, none exceeds 255.
C9_ValidConjunction ==
    Returned("integrate") /\ ret.exc = "none"
      => LET photos == samples[ret.n].photos[ret.timestep]
             homographies == samples[ret.n].homographies[ret.timestep]
             valid(q) ==
                 /\ ~maskObj.px[q]
                 /\ \A i \in 1 .. 10 :
                      \E c \in 1 .. 3 :
                         Warped(photos, homographies, i).px[q][c] # 0
         IN  \A q \in Probes, c \in 1 .. 3 :
               /\ ret.image.px[q][c]
                    = IF valid(q)
                      THEN WarpedSum(photos, homographies, q, c, 10) \div 10
                      ELSE 0
               /\ ret.image.px[q][c] <= 255

\* integrate(2) on a masked sample whose G03 images are black at (0,1):
\* (0,0) is the floored average, (0,1) is dropped though nine images have a
\* value there and the mask allows it, (1,1) is masked.
C9_Witness ==
    /\ Returned("integrate")
    /\ ret.exc = "none"
    /\ ret.timestep = 2
    /\ SourceDir(ret.n).style = "gap"
    /\ ret.image.px[<<0, 0>>] = <<25, 105, 7>>
    /\ ret.image.px[<<0, 1>>] = Black
    /\ ~maskObj.px[<<0, 1>>]
    /\ samples[ret.n].photos[2][1].px[<<0, 1>>] # Black
    /\ maskObj.px[<<1, 1>>] /\ ret.image.px[<<1, 1>>] = Black

\* C10: no method call changes a loaded sample's photos, homographies or
\* labels, nor the shared mask.
C10_Claimed ==
    [][Live => samples' = samples /\ maskObj' = maskObj]_vars

====
